---- MODULE Spec2Model ----
(***************************************************************************)
(* HttpServerController: the request dispatch engine.                      *)
(*                                                                         *)
(* One HttpServerController is constructed with an optional upstream URL   *)
(* and an optional list of SSR route patterns.  handleRequest is an async  *)
(* function: each action below is one run of it between two awaits.        *)
(* The static-file server (node-static), the reverse proxy (http-proxy),   *)
(* the SSR renderer and the HTTP request/response objects are the          *)
(* environment: their outcomes are chosen nondeterministically.            *)
(***************************************************************************)
EXTENDS Integers, Sequences, FiniteSets, TLC

VARIABLES
    apiBasePath,      \* this._apiBasePath ("" while undefined)
    apiUrl,           \* this._apiUrl      ("" while undefined)
    proxy,            \* this._proxy is defined
    reactRouteList,   \* this._reactRouteList
    pc,               \* per request: where handleRequest is suspended
    req,              \* per request: the IncomingMessage (url, method, stream)
    res,              \* per request: the ServerResponse
    url,              \* per request: the local `url` of handleRequest
    decision,         \* per request: the branch taken at lines 71-85
    log,              \* per request: the lines written through LOG
    reactCalls,       \* per request: urls passed to handleReactRequest
    staticCalls,      \* per request: number of _fileServer.serve calls
    proxyCalls,       \* per request: req.url at each _proxy.web call
    results,          \* per request: what each collaborator reported back
    applied           \* a direct call of a private method: its argument and result

vars == << apiBasePath, apiUrl, proxy, reactRouteList, pc, req, res, url,
           decision, log, reactCalls, staticCalls, proxyCalls, results, applied >>

config == << apiBasePath, apiUrl, proxy, reactRouteList >>

----------------------------------------------------------------------------
(* Bounds and the inputs that are enumerated                               *)

NumRequests == 1

Requests == 1 .. NumRequests

WELL_KNOWN_HG_HEALTH_CHECK_END_POINT == "/.well-known/hg/health"

Paths ==
    { "/.well-known/hg/health",
      "/.well-known/hg/health/db",
      "/api/users",
      "/apiary",
      "/users/42/edit",
      "/about",
      "/index.html" }

\* the reactRouteList argument of the constructor; given = FALSE is undefined
RouteListArgs ==
    { [given |-> FALSE, list |-> << >>],
      [given |-> TRUE,  list |-> << >>],
      [given |-> TRUE,  list |-> << "/about", "/users/:id/edit" >>],
      [given |-> TRUE,  list |-> << "/api/:id", "/:a/:b/:c" >>] }

\* the apiUrl argument of the constructor; given = FALSE is undefined
ApiUrlArgs ==
    { [given |-> FALSE, value |-> ""],
      [given |-> TRUE,  value |-> "http://backend:3000"] }

----------------------------------------------------------------------------
(* Strings                                                                 *)

startsWith(string, target) ==
    /\ Len(target) <= Len(string)
    /\ SubSeq(string, 1, Len(target)) = target

substring(string, start) == SubSeq(string, start + 1, Len(string))

RECURSIVE split(_, _)
split(string, separator) ==
    IF \E i \in 1 .. Len(string) : SubSeq(string, i, i) = separator
    THEN LET i == CHOOSE k \in 1 .. Len(string) :
                     /\ SubSeq(string, k, k) = separator
                     /\ \A j \in 1 .. (k - 1) : SubSeq(string, j, j) # separator
         IN  << SubSeq(string, 1, i - 1) >>
                 \o split(SubSeq(string, i + 1, Len(string)), separator)
    ELSE << string >>

----------------------------------------------------------------------------
(* Route tests                                                             *)

isApiRoute(u) == startsWith(u, apiBasePath)

isReactRoutePrefix(u) ==
    \E k \in 1 .. Len(reactRouteList) :
        LET route      == reactRouteList[k]
            urlParts   == split(u, "/")
            routeParts == split(route, "/")
        IN  IF Len(urlParts) < Len(routeParts)
            THEN FALSE
            ELSE \A index \in 1 .. Len(routeParts) :
                     IF startsWith(routeParts[index], ":")
                     THEN TRUE
                     ELSE routeParts[index] = urlParts[index]

isReactRoute(u) ==
    \E k \in 1 .. Len(reactRouteList) :
        LET route      == reactRouteList[k]
            urlParts   == split(u, "/")
            routeParts == split(route, "/")
        IN  IF Len(urlParts) # Len(routeParts)
            THEN FALSE
            ELSE \A index \in 1 .. Len(urlParts) :
                     IF startsWith(routeParts[index], ":")
                     THEN TRUE
                     ELSE routeParts[index] = urlParts[index]

classifyProxyFirst(u) ==
    IF startsWith(u, WELL_KNOWN_HG_HEALTH_CHECK_END_POINT) THEN "HealthCheck"
    ELSE IF proxy /\ isApiRoute(u) THEN "Proxied"
    ELSE IF isReactRoute(u) THEN "ServerRendered"
    ELSE "Static"

classifyReactFirst(u) ==
    IF isReactRoute(u) THEN "ServerRendered"
    ELSE IF startsWith(u, WELL_KNOWN_HG_HEALTH_CHECK_END_POINT) THEN "HealthCheck"
    ELSE IF proxy /\ isApiRoute(u) THEN "Proxied"
    ELSE "Static"

rewriteUrlAllOccurrences(u, basePath) ==
    IF startsWith(u, basePath)
    THEN LET rest == substring(u, Len(basePath))
         IN  IF startsWith(rest, basePath) THEN substring(rest, Len(basePath)) ELSE rest
    ELSE u

\* req.url = url.startsWith(basePath) ? url.substring(basePath.length) : url
rewriteUrl(u, basePath) ==
    IF startsWith(u, basePath) THEN substring(u, Len(basePath)) ELSE u

awaitedNoDrain(d) ==
    CASE d = "HealthCheck"    -> "drainHealth"
      [] d = "ServerRendered" -> "react"
      [] d = "Proxied"        -> "proxy"
      [] OTHER                -> "static"

\* what handleRequest awaits first in each branch
awaited(d) ==
    CASE d = "HealthCheck"    -> "drainHealth"
      [] d = "ServerRendered" -> "react"
      [] d = "Proxied"        -> "proxy"
      [] OTHER                -> "drainStatic"

\* the if / else-if chain of handleRequest
classify(u) ==
    IF startsWith(u, WELL_KNOWN_HG_HEALTH_CHECK_END_POINT) THEN "HealthCheck"
    ELSE IF isReactRoute(u) THEN "ServerRendered"
    ELSE IF proxy /\ isApiRoute(u) THEN "Proxied"
    ELSE "Static"

----------------------------------------------------------------------------
(* Errors, response entities and the ServerResponse                        *)

\* an error object: `status` is present or not ((err as any)?.status)
Err(status)  == [hasStatus |-> TRUE, status |-> status]

ErrNoStatus  == [hasStatus |-> FALSE, status |-> 0]

ErrStatuses  == { 403, 404, 500 }

Errors       == { Err(s) : s \in ErrStatuses } \cup { ErrNoStatus }

\* (err as any)?.status ?? -1
statusOf(err) == IF err.hasStatus THEN err.status ELSE -1

isNotFoundNever(statusCode) == FALSE

\* statusCode === 404
isNotFound(statusCode) == statusCode = 404

ResponseEntity(statusCode, body) == [statusCode |-> statusCode, body |-> body]

ResponseEntityOk(body) == ResponseEntity(200, body)

createHealthCheckDTO(isHealthy) == [healthy |-> isHealthy]

JSONstringify(dto) ==
    IF dto.healthy THEN "{\"healthy\":true}" ELSE "{\"healthy\":false}"

\* a new ServerResponse: nothing sent, statusCode defaults to 200
NewResponse ==
    [ headersSent   |-> FALSE,
      writableEnded |-> FALSE,
      statusCode    |-> 200,
      body          |-> << >>,
      headWrites    |-> 0,
      endCalls      |-> 0 ]

\* res.writeHead throws ERR_HTTP_HEADERS_SENT once the headers are out and
\* ERR_HTTP_INVALID_STATUS_CODE for a code outside 100..999
writeHeadThrows(r, statusCode) ==
    \/ r.headersSent
    \/ statusCode < 100
    \/ statusCode > 999

writeHead(r, statusCode) ==
    [r EXCEPT !.headersSent = TRUE,
              !.statusCode  = statusCode,
              !.headWrites  = @ + 1]

\* res.end(body): sends the implicit header if none was sent; a call on an
\* ended response writes nothing
end(r, body) ==
    IF r.writableEnded
    THEN [r EXCEPT !.endCalls = @ + 1]
    ELSE [r EXCEPT !.headersSent   = TRUE,
                   !.headWrites    = IF r.headersSent THEN @ ELSE @ + 1,
                   !.body          = IF body = "" THEN @ ELSE Append(@, body),
                   !.writableEnded = TRUE,
                   !.endCalls      = @ + 1]

----------------------------------------------------------------------------
(* Logging and the response writers; c = [res, log, threw]                 *)

LogLine(level, event, code) == [level |-> level, event |-> event, code |-> code]

writeResponseEntity(c, response) ==
    LET statusCode == response.statusCode
        logged     == Append(c.log, LogLine("info", "status", statusCode))
    IN  IF writeHeadThrows(c.res, statusCode)
        THEN [res |-> c.res, log |-> logged, threw |-> TRUE]
        ELSE [res   |-> end(writeHead(c.res, statusCode), response.body),
              log   |-> logged,
              threw |-> FALSE]

writeErrorNoInfo(c, statusCode, body) ==
    LET logged == Append(c.log, LogLine("error", "ERROR", 0))
    IN  IF writeHeadThrows(c.res, statusCode)
        THEN [res |-> c.res, log |-> logged, threw |-> TRUE]
        ELSE [res   |-> end(writeHead(c.res, statusCode), body),
              log   |-> logged,
              threw |-> FALSE]

writeError(c, statusCode, body) ==
    LET logged == c.log \o << LogLine("error", "ERROR", 0),
                              LogLine("info", "status", statusCode) >>
    IN  IF writeHeadThrows(c.res, statusCode)
        THEN [res |-> c.res, log |-> logged, threw |-> TRUE]
        ELSE [res   |-> end(writeHead(c.res, statusCode), body),
              log   |-> logged,
              threw |-> FALSE]

finallyNoEnd(c) ==
    IF ~ c.res.writableEnded
    THEN [c EXCEPT !.log = Append(@, LogLine("warn", "not closed", 0))]
    ELSE c

finallyAlwaysEnd(c) ==
    [c EXCEPT !.log = Append(@, LogLine("warn", "not closed", 0)),
              !.res = end(@, "")]

\* the finally block of handleRequest
finally(c) ==
    IF ~ c.res.writableEnded
    THEN [c EXCEPT !.log = Append(@, LogLine("warn", "not closed", 0)),
                   !.res = end(@, "")]
    ELSE c

serveAsLocalHealthCheckUnhealthy(c, isHealthy) ==
    writeResponseEntity(c,
        ResponseEntityOk(JSONstringify(createHealthCheckDTO(FALSE))))

serveAsLocalHealthCheck(c, isHealthy) ==
    writeResponseEntity(c,
        ResponseEntityOk(JSONstringify(createHealthCheckDTO(isHealthy))))

fallbackErrorStatusOfCause(err2) == statusOf(err2)

\* the status the nested catch writes, whatever err2 is
fallbackErrorStatus(err2) == 500

----------------------------------------------------------------------------
(* What the collaborators can report                                       *)

\* what a collaborator that is handed `res` did to it before calling back
Effects == { "none", "headers", "ended" }

Outcome(ok, err, effect) == [ok |-> ok, err |-> err, effect |-> effect]

\* node-static and http-proxy: success or failure, with the response left
\* alone, started or completed; "not found" is reported before anything
\* is written
ResOutcomes ==
    { Outcome(TRUE, ErrNoStatus, e) : e \in Effects }
        \cup { Outcome(FALSE, err, e) : err \in Errors \ { Err(404) }, e \in Effects }
        \cup { Outcome(FALSE, Err(404), "none") }

\* ReactServerController.handleReactRequest: a ResponseEntity or an error;
\* it is not given `res`
ReactOutcomes ==
    { Outcome(TRUE, ErrNoStatus, "none") }
        \cup { Outcome(FALSE, err, "none") : err \in Errors }

handleReactRequestResponse == ResponseEntityOk("<html>")

applyEffect(r, effect) ==
    IF effect = "headers" THEN writeHead(r, 200)
    ELSE IF effect = "ended" THEN end(writeHead(r, 200), "content")
    ELSE r

\* no private method has been called directly
NoCall == [fn |-> "none", url |-> "", result |-> ""]

Result(of, o) == [of |-> of, ok |-> o.ok, err |-> o.err, effect |-> o.effect]

----------------------------------------------------------------------------
(* The state after construction                                            *)

Init ==
    /\ \E a \in ApiUrlArgs :
           /\ apiBasePath = IF a.given THEN "/api" ELSE ""
           /\ apiUrl      = IF a.given THEN a.value ELSE ""
           /\ proxy       = a.given
    /\ \E l \in RouteListArgs :
           reactRouteList = IF l.given THEN l.list ELSE << >>
    /\ pc          = [r \in Requests |-> "idle"]
    /\ req         = [r \in Requests |-> [url |-> "", method |-> "", stream |-> "open"]]
    /\ res         = [r \in Requests |-> NewResponse]
    /\ url         = [r \in Requests |-> ""]
    /\ decision    = [r \in Requests |-> "none"]
    /\ log         = [r \in Requests |-> << >>]
    /\ reactCalls  = [r \in Requests |-> << >>]
    /\ staticCalls = [r \in Requests |-> 0]
    /\ proxyCalls  = [r \in Requests |-> << >>]
    /\ results     = [r \in Requests |-> << >>]
    /\ applied     = NoCall

----------------------------------------------------------------------------
(* The tails of handleRequest                                              *)

fallbackUrlOfRequest(r) == req[r].url

\* the `url` passed to _serveUsingReactController in the catch block
fallbackUrl(r) == url[r]

CtxShared(r) == [res |-> res[1], log |-> log[r], threw |-> FALSE]

\* the response and the log handleRequest works on
Ctx(r) == [res |-> res[r], log |-> log[r], threw |-> FALSE]

\* the finally block runs and the promise of handleRequest settles
settle(r, c) ==
    LET f == finally(c)
    IN  /\ res' = [res EXCEPT ![r] = f.res]
        /\ log' = [log EXCEPT ![r] = f.log]
        /\ pc'  = [pc EXCEPT ![r] = IF c.threw THEN "rejected" ELSE "done"]

\* the catch block of handleRequest, entered with `err`
catch(r, c, err) ==
    LET statusCode == statusOf(err)
    IN  IF isNotFound(statusCode)
        THEN /\ log' = [log EXCEPT ![r] =
                            Append(c.log, LogLine("debug", "Not Found 404", 0))]
             /\ res' = [res EXCEPT ![r] = c.res]
             /\ reactCalls' = [reactCalls EXCEPT ![r] = Append(@, fallbackUrl(r))]
             /\ pc' = [pc EXCEPT ![r] = "fallback"]
        ELSE /\ settle(r, writeError(
                        [c EXCEPT !.log = Append(@, LogLine("error", "Error", statusCode))],
                        statusCode, "Error " \o ToString(statusCode)))
             /\ UNCHANGED reactCalls

\* the try block ran to its end, or threw an error without status
tryDone(r, c) ==
    IF c.threw
    THEN catch(r, [c EXCEPT !.threw = FALSE], ErrNoStatus)
    ELSE settle(r, c) /\ UNCHANGED reactCalls

\* the nested catch block, entered with err2
catch2(r, c, err2) ==
    settle(r, writeError(
                [c EXCEPT !.log = Append(@, LogLine("debug", "Error in ReactController", 0))],
                fallbackErrorStatus(err2), "Internal Server Error"))

----------------------------------------------------------------------------
(* handleRequest, one action per run between awaits                        *)

\* lines 66-85 up to the first await
HandleRequest(r) ==
    /\ pc[r] = "idle"
    /\ \E u \in Paths :
        LET d == classify(u)
        IN  /\ url' = [url EXCEPT ![r] = u]
            /\ decision' = [decision EXCEPT ![r] = d]
            /\ log' = [log EXCEPT ![r] = Append(@, LogLine("debug", "Routing request", 0))]
            /\ req' = [req EXCEPT ![r] =
                          [url    |-> IF d = "Proxied" THEN rewriteUrl(u, apiBasePath) ELSE u,
                           method |-> "GET",
                           stream |-> "open"]]
            /\ reactCalls' = [reactCalls EXCEPT ![r] =
                                 IF d = "ServerRendered" THEN Append(@, u) ELSE @]
            /\ proxyCalls' = [proxyCalls EXCEPT ![r] =
                                 IF d = "Proxied" THEN Append(@, req'[r].url) ELSE @]
            /\ pc' = [pc EXCEPT ![r] = awaited(d)]
    /\ UNCHANGED << config, applied, res, staticCalls, results >>

\* the 'end' event of the request while _waitUntilRequestEnd awaits it
\* before the health check
RequestEndHealth(r) ==
    /\ pc[r] = "drainHealth"
    /\ req[r].stream = "open"
    /\ req' = [req EXCEPT ![r].stream = "ended"]
    /\ tryDone(r, serveAsLocalHealthCheck(Ctx(r), TRUE))
    /\ UNCHANGED << config, applied, url, decision, staticCalls, proxyCalls, results >>

\* the 'end' event of the request while _waitUntilRequestEnd awaits it
\* before the static server
RequestEndStatic(r) ==
    /\ pc[r] = "drainStatic"
    /\ req[r].stream = "open"
    /\ req' = [req EXCEPT ![r].stream = "ended"]
    /\ staticCalls' = [staticCalls EXCEPT ![r] = @ + 1]
    /\ pc' = [pc EXCEPT ![r] = "static"]
    /\ UNCHANGED << config, applied, res, url, decision, log, reactCalls, proxyCalls, results >>

\* the client goes away while the engine waits for 'end': it is never emitted
RequestAborted(r) ==
    /\ pc[r] \in { "drainHealth", "drainStatic" }
    /\ req[r].stream = "open"
    /\ req' = [req EXCEPT ![r].stream = "aborted"]
    /\ UNCHANGED << config, applied, pc, res, url, decision, log, reactCalls, staticCalls,
                    proxyCalls, results >>

\* the callback of _fileServer.serve
StaticDone(r) ==
    /\ pc[r] = "static"
    /\ \E o \in ResOutcomes :
        LET c == [Ctx(r) EXCEPT !.res = applyEffect(@, o.effect)]
        IN  /\ results' = [results EXCEPT ![r] = Append(@, Result("static", o))]
            /\ IF o.ok THEN tryDone(r, c) ELSE catch(r, c, o.err)
    /\ UNCHANGED << config, applied, req, url, decision, staticCalls, proxyCalls >>

\* the callback of _proxy.web
ProxyDone(r) ==
    /\ pc[r] = "proxy"
    /\ \E o \in ResOutcomes :
        LET c == [Ctx(r) EXCEPT !.res = applyEffect(@, o.effect)]
        IN  /\ results' = [results EXCEPT ![r] = Append(@, Result("proxy", o))]
            /\ IF o.ok THEN tryDone(r, c) ELSE catch(r, c, o.err)
    /\ UNCHANGED << config, applied, req, url, decision, staticCalls, proxyCalls >>

\* handleReactRequest settles for the ServerRendered branch
ReactDone(r) ==
    /\ pc[r] = "react"
    /\ \E o \in ReactOutcomes :
        /\ results' = [results EXCEPT ![r] = Append(@, Result("react", o))]
        /\ IF o.ok
           THEN tryDone(r, writeResponseEntity(Ctx(r), handleReactRequestResponse))
           ELSE catch(r, Ctx(r), o.err)
    /\ UNCHANGED << config, applied, req, url, decision, staticCalls, proxyCalls >>

\* handleReactRequest settles for the re-dispatch inside the catch block
FallbackDone(r) ==
    /\ pc[r] = "fallback"
    /\ \E o \in ReactOutcomes :
        /\ results' = [results EXCEPT ![r] = Append(@, Result("fallback", o))]
        /\ IF o.ok
           THEN LET w == writeResponseEntity(Ctx(r), handleReactRequestResponse)
                IN  IF w.threw
                    THEN catch2(r, [w EXCEPT !.threw = FALSE], ErrNoStatus)
                    ELSE settle(r, w)
           ELSE catch2(r, Ctx(r), o.err)
    /\ UNCHANGED << config, applied, req, url, decision, reactCalls, staticCalls, proxyCalls >>

Next ==
    \/ \E r \in DOMAIN pc : HandleRequest(r)
    \/ \E r \in DOMAIN pc : RequestEndHealth(r)
    \/ \E r \in DOMAIN pc : RequestEndStatic(r)
    \/ \E r \in DOMAIN pc : RequestAborted(r)
    \/ \E r \in DOMAIN pc : StaticDone(r)
    \/ \E r \in DOMAIN pc : ProxyDone(r)
    \/ \E r \in DOMAIN pc : ReactDone(r)
    \/ \E r \in DOMAIN pc : FallbackDone(r)

Spec == Init /\ [][Next]_vars

\* an open request stream emits 'end' once it is read, and every
\* collaborator the engine awaits calls back; a client may abort or not
Fairness ==
    \A r \in Requests :
        /\ WF_vars(RequestEndHealth(r))
        /\ WF_vars(RequestEndStatic(r))
        /\ WF_vars(StaticDone(r))
        /\ WF_vars(ProxyDone(r))
        /\ WF_vars(ReactDone(r))
        /\ WF_vars(FallbackDone(r))

SpecFair == Init /\ [][Next]_vars /\ Fairness

NumConcurrent == 2

\* several requests in flight on one controller, constructed with an
\* upstream and the route list ["/about", "/users/:id/edit"], under which
\* all four branches are taken
InitConc ==
    /\ apiBasePath    = "/api"
    /\ apiUrl         = "http://backend:3000"
    /\ proxy          = TRUE
    /\ reactRouteList = << "/about", "/users/:id/edit" >>
    /\ pc          = [r \in 1 .. NumConcurrent |-> "idle"]
    /\ req         = [r \in 1 .. NumConcurrent |-> [url |-> "", method |-> "", stream |-> "open"]]
    /\ res         = [r \in 1 .. NumConcurrent |-> NewResponse]
    /\ url         = [r \in 1 .. NumConcurrent |-> ""]
    /\ decision    = [r \in 1 .. NumConcurrent |-> "none"]
    /\ log         = [r \in 1 .. NumConcurrent |-> << >>]
    /\ reactCalls  = [r \in 1 .. NumConcurrent |-> << >>]
    /\ staticCalls = [r \in 1 .. NumConcurrent |-> 0]
    /\ proxyCalls  = [r \in 1 .. NumConcurrent |-> << >>]
    /\ results     = [r \in 1 .. NumConcurrent |-> << >>]
    /\ applied     = NoCall

SpecConc == InitConc /\ [][Next]_vars

----------------------------------------------------------------------------
(* The private methods called directly, on enumerated arguments            *)

MatcherPaths ==
    { "", "/", "/about", "/about/", "/About", "about",
      "/users/42/edit", "/users/abc/edit", "/users/42/edit/extra",
      "/users/edit", "/users/42", "/users//edit", "/accounts/42/edit",
      "/api", "/api/widgets/7", "/api/api/x", "/apiary", "/widgets/api/7" }

MatcherRouteLists ==
    { << >>,
      << "/about" >>,
      << "/users/:id/edit" >>,
      << "/about", "/users/:id/edit" >>,
      << "/users/:id/edit", "/about" >>,
      << "/:a/:b" >>,
      << "/users/:id/:action", "/" >>,
      << ":any" >> }

BoolString(b) == IF b THEN "true" ELSE "false"

\* a controller constructed with an upstream and one of the route lists,
\* and a url to call a private method with
InitPure ==
    /\ apiBasePath = "/api"
    /\ apiUrl      = "http://backend:3000"
    /\ proxy       = TRUE
    /\ reactRouteList \in MatcherRouteLists
    /\ pc          = [r \in Requests |-> "idle"]
    /\ req         = [r \in Requests |-> [url |-> "", method |-> "", stream |-> "open"]]
    /\ res         = [r \in Requests |-> NewResponse]
    /\ url         = [r \in Requests |-> ""]
    /\ decision    = [r \in Requests |-> "none"]
    /\ log         = [r \in Requests |-> << >>]
    /\ reactCalls  = [r \in Requests |-> << >>]
    /\ staticCalls = [r \in Requests |-> 0]
    /\ proxyCalls  = [r \in Requests |-> << >>]
    /\ results     = [r \in Requests |-> << >>]
    /\ \E u \in MatcherPaths : applied = [NoCall EXCEPT !.url = u]

handling == << pc, req, res, url, decision, log, reactCalls, staticCalls,
               proxyCalls, results >>

\* this._isReactRoute(url)
CallIsReactRoute ==
    /\ applied.fn = "none"
    /\ applied' = [applied EXCEPT !.fn = "isReactRoute",
                                  !.result = BoolString(isReactRoute(applied.url))]
    /\ UNCHANGED << config, handling >>

\* this._isApiRoute(url)
CallIsApiRoute ==
    /\ applied.fn = "none"
    /\ applied' = [applied EXCEPT !.fn = "isApiRoute",
                                  !.result = BoolString(isApiRoute(applied.url))]
    /\ UNCHANGED << config, handling >>

\* the rewrite of req.url in _proxyRequestToTarget(req, res, target, basePath)
CallProxyRequestToTarget ==
    /\ applied.fn = "none"
    /\ applied' = [applied EXCEPT !.fn = "proxyRequestToTarget",
                                  !.result = rewriteUrl(applied.url, apiBasePath)]
    /\ UNCHANGED << config, handling >>

NextPure ==
    \/ CallIsReactRoute
    \/ CallIsApiRoute
    \/ CallProxyRequestToTarget

SpecPure == InitPure /\ [][NextPure]_vars

----------------------------------------------------------------------------
(* Properties                                                              *)

finished(r) == pc[r] \in { "done", "rejected" }

started(r) == pc[r] # "idle"

isHealthPath(u) == startsWith(u, "/.well-known/hg/health")

isUnderApi(u) == startsWith(u, "/api")

warned(r) == \E i \in 1 .. Len(log[r]) : log[r][i].level = "warn"

invocations(r) == Len(reactCalls[r]) + staticCalls[r] + Len(proxyCalls[r])

\* the first failure a request met was this one
primaryFailed(r) == Len(results[r]) >= 1 /\ ~ results[r][1].ok

fallbackFailed(r) ==
    \E i \in 1 .. Len(results[r]) :
        results[r][i].of = "fallback" /\ ~ results[r][i].ok

\* C1: a response never carries two status lines or two ends, and once
\* handleRequest has finished it carries exactly one status line and has been
\* ended exactly once, whatever the primary and the fallback outcome were.
C1_TerminatedExactlyOnce ==
    \A r \in DOMAIN pc :
        /\ res[r].headWrites <= 1
        /\ res[r].endCalls <= 1
        /\ finished(r) => res[r].headWrites = 1 /\ res[r].endCalls = 1

\* a request whose primary strategy failed with 404 and whose fallback failed
\* too has finished with one status line and one end
C1_Witness ==
    \E r \in DOMAIN pc :
        /\ finished(r)
        /\ primaryFailed(r)
        /\ fallbackFailed(r)
        /\ res[r].headWrites = 1
        /\ res[r].endCalls = 1

\* C2: once handleRequest has finished the response is ended; it was ended
\* with an empty body exactly when the engine logged the warning of its
\* finally block, and that warning is then the last line logged.
C2_TerminalBackstop ==
    \A r \in DOMAIN pc :
        finished(r) =>
            /\ res[r].writableEnded
            /\ warned(r) <=> res[r].body = << >>
            /\ warned(r) => log[r][Len(log[r])].level = "warn"

\* a strategy failed without ending the response and the finally block ended it
C2_Witness ==
    \E r \in DOMAIN pc :
        /\ finished(r)
        /\ primaryFailed(r)
        /\ results[r][1].effect # "ended"
        /\ warned(r)
        /\ res[r].writableEnded
        /\ res[r].body = << >>

\* C3: the branch taken is decided by the path and the configuration in
\* priority order: liveness prefix, then SSR route, then upstream configured
\* and path under /api, then static; without an upstream nothing is proxied.
C3_PriorityOrder ==
    \A r \in DOMAIN pc :
        started(r) =>
            LET u      == url[r]
                health == isHealthPath(u)
                ssr    == isReactRoute(u)
                api    == apiUrl # "" /\ isUnderApi(u)
            IN  /\ decision[r] \in { "HealthCheck", "ServerRendered", "Proxied", "Static" }
                /\ health => decision[r] = "HealthCheck"
                /\ ~ health /\ ssr => decision[r] = "ServerRendered"
                /\ ~ health /\ ~ ssr /\ api => decision[r] = "Proxied"
                /\ ~ health /\ ~ ssr /\ ~ api => decision[r] = "Static"
                /\ apiUrl = "" => decision[r] # "Proxied"

\* a liveness path that also matches an SSR route pattern went to the health check
C3_Witness ==
    \E r \in DOMAIN pc :
        /\ started(r)
        /\ isHealthPath(url[r])
        /\ isReactRoute(url[r])
        /\ decision[r] = "HealthCheck"

\* C4: a request whose path matches an SSR route pattern and is no liveness
\* path is never handed to the static server nor to the proxy, in any state
\* of its handling.
C4_SsrRouteNeverStaticNorProxy ==
    \A r \in DOMAIN pc :
        started(r) /\ isReactRoute(url[r]) /\ ~ isHealthPath(url[r]) =>
            /\ staticCalls[r] = 0
            /\ proxyCalls[r] = << >>
            /\ pc[r] \notin { "drainStatic", "static", "proxy" }

\* an SSR-routed path under /api, with an upstream configured, whose SSR
\* strategy failed, has finished without the static server or the proxy
C4_Witness ==
    \E r \in DOMAIN pc :
        /\ finished(r)
        /\ isReactRoute(url[r])
        /\ isUnderApi(url[r])
        /\ proxy
        /\ primaryFailed(r)
        /\ staticCalls[r] = 0
        /\ proxyCalls[r] = << >>

staticNotFound(r) ==
    /\ ~ isReactRoute(url[r])
    /\ ~ isUnderApi(url[r])
    /\ Len(results[r]) >= 1
    /\ results[r][1].of = "static"
    /\ ~ results[r][1].ok
    /\ results[r][1].err = Err(404)

\* C5: for a path outside the SSR list and outside /api whose static lookup
\* failed with 404, no 404 is written, the SSR collaborator is invoked exactly
\* once, and the finished response is the 200 of SSR if it succeeded and one
\* 500 if it failed.
C5_StaticNotFoundFallsBackToSsr ==
    \A r \in DOMAIN pc :
        staticNotFound(r) =>
            /\ Len(reactCalls[r]) = 1
            /\ res[r].statusCode # 404
            /\ pc[r] = "fallback" => ~ res[r].headersSent
            /\ finished(r) =>
                /\ Len(results[r]) = 2
                /\ results[r][2].ok =>
                       /\ res[r].statusCode = 200
                       /\ res[r].body = << "<html>" >>
                /\ ~ results[r][2].ok =>
                       /\ res[r].statusCode = 500
                       /\ res[r].headWrites = 1

\* a missing static file was recovered by a successful SSR render
C5_Witness ==
    \E r \in DOMAIN pc :
        /\ staticNotFound(r)
        /\ finished(r)
        /\ results[r][2].ok
        /\ Len(reactCalls[r]) = 1
        /\ res[r].statusCode = 200

\* C6: when the primary strategy fails with a status other than 404, or with
\* no status (-1), SSR is not invoked as a fallback and the client receives
\* that status with the body "Error <code>".
C6_NonNotFoundSurfacesStatus ==
    \A r \in DOMAIN pc :
        finished(r) /\ primaryFailed(r) /\ statusOf(results[r][1].err) # 404 =>
            /\ Len(results[r]) = 1
            /\ res[r].statusCode = statusOf(results[r][1].err)
            /\ res[r].body = << "Error " \o ToString(statusOf(results[r][1].err)) >>

\* C7: a request whose primary strategy is HealthCheck or ServerRendered is
\* never re-dispatched to SSR, so SSR is invoked at most once for it.
C7_NoRecoveryForHealthAndSsr ==
    \A r \in DOMAIN pc :
        decision[r] \in { "HealthCheck", "ServerRendered" } =>
            /\ pc[r] # "fallback"
            /\ Len(reactCalls[r]) <= 1

\* C8: a request makes at most two strategy invocations, and when the SSR
\* re-dispatch fails, with whatever error, nothing more is attempted and the
\* response is 500 "Internal Server Error".
C8_FallbackBoundedToOneRetry ==
    \A r \in DOMAIN pc :
        /\ invocations(r) <= 2
        /\ finished(r) /\ fallbackFailed(r) =>
               /\ invocations(r) = 2
               /\ Len(results[r]) = 2
               /\ res[r].statusCode = 500
               /\ res[r].body = << "Internal Server Error" >>

\* the SSR re-dispatch failed with an error that itself carries status 404
C8_Witness ==
    \E r \in DOMAIN pc :
        /\ finished(r)
        /\ Len(results[r]) = 2
        /\ results[r][2].of = "fallback"
        /\ results[r][2].err = Err(404)
        /\ ~ results[r][2].ok
        /\ res[r].statusCode = 500

\* C9: handleRequest never throws or rejects to its caller.
C9_NothingEscapes ==
    \A r \in DOMAIN pc : pc[r] # "rejected"

\* C10: a liveness request invokes none of the static, proxy and SSR
\* collaborators, and once handled it has been answered 200 {"healthy":true}.
C10_LivenessAlwaysHealthy ==
    \A r \in DOMAIN pc :
        started(r) /\ isHealthPath(url[r]) =>
            /\ reactCalls[r] = << >>
            /\ staticCalls[r] = 0
            /\ proxyCalls[r] = << >>
            /\ results[r] = << >>
            /\ pc[r] # "rejected"
            /\ finished(r) =>
                /\ res[r].statusCode = 200
                /\ res[r].body = << "{\"healthy\":true}" >>
                /\ res[r].headWrites = 1

\* a liveness path that matches an SSR route pattern, with an upstream
\* configured, was answered
C10_Witness ==
    \E r \in DOMAIN pc :
        /\ finished(r)
        /\ isHealthPath(url[r])
        /\ isReactRoute(url[r])
        /\ proxy
        /\ res[r].statusCode = 200


\* a/p split on "/": same number of segments, and every segment of p that
\* does not start with ":" equals the segment of a at the same place
segmentsMatch(a, p) ==
    LET A == split(a, "/")
        P == split(p, "/")
    IN  /\ Len(A) = Len(P)
        /\ \A i \in 1 .. Len(P) :
               ~ startsWith(P[i], ":") => P[i] = A[i]

\* C11: the matcher answers true exactly when some pattern of the route list
\* has as many segments as the path and agrees with it on every segment
\* that is no placeholder; the empty list matches nothing, and
\* /users/:id/edit matches /users/42/edit and /users/abc/edit but neither
\* /users/42/edit/extra nor /users/edit.
C11_MatcherIffSegmentsAgree ==
    applied.fn = "isReactRoute" =>
        /\ applied.result = "true" <=>
               \E k \in 1 .. Len(reactRouteList) :
                   segmentsMatch(applied.url, reactRouteList[k])
        /\ reactRouteList = << >> => applied.result = "false"
        /\ reactRouteList = << "/users/:id/edit" >> =>
               /\ applied.url \in { "/users/42/edit", "/users/abc/edit" }
                      => applied.result = "true"
               /\ applied.url \in { "/users/42/edit/extra", "/users/edit" }
                      => applied.result = "false"

\* /users/abc/edit was matched against a list whose second pattern is
\* /users/:id/edit
C11_Witness ==
    /\ applied.fn = "isReactRoute"
    /\ applied.url = "/users/abc/edit"
    /\ reactRouteList = << "/about", "/users/:id/edit" >>
    /\ applied.result = "true"

\* C12: the path handed to the upstream is the request path with the base
\* path /api taken off its front once and nothing else changed; a path that
\* does not start with /api is handed on as it is; /api/widgets/7 becomes
\* /widgets/7.
C12_PrefixStrippedOnce ==
    applied.fn = "proxyRequestToTarget" =>
        /\ isUnderApi(applied.url) => "/api" \o applied.result = applied.url
        /\ ~ isUnderApi(applied.url) => applied.result = applied.url
        /\ applied.url = "/api/widgets/7" => applied.result = "/widgets/7"

\* /api/widgets/7 was rewritten to /widgets/7
C12_Witness ==
    /\ applied.fn = "proxyRequestToTarget"
    /\ applied.url = "/api/widgets/7"
    /\ applied.result = "/widgets/7"

draining(r) == pc[r] \in { "drainHealth", "drainStatic" }

\* C13 as claimed: the static server and the upstream forwarder are invoked
\* only after the request stream has ended, and a HealthCheck or
\* ServerRendered request never waits for the stream to end.
C13_DrainBeforeStaticAndProxied ==
    \A r \in DOMAIN pc :
        /\ staticCalls[r] >= 1 => req[r].stream = "ended"
        /\ proxyCalls[r] # << >> => req[r].stream = "ended"
        /\ decision[r] \in { "HealthCheck", "ServerRendered" } => ~ draining(r)

\* C13, amended: the static server is invoked and the health response is
\* written only after the request stream has ended; a Proxied or
\* ServerRendered request never waits for the stream to end: the forwarder
\* or the SSR collaborator has been invoked as soon as the branch is taken.
C13_DrainBeforeStaticAndHealth ==
    \A r \in DOMAIN pc :
        /\ staticCalls[r] >= 1 \/ pc[r] = "static" => req[r].stream = "ended"
        /\ decision[r] = "Static" /\ req[r].stream # "ended" =>
               draining(r) /\ staticCalls[r] = 0
        /\ decision[r] = "HealthCheck" /\ req[r].stream # "ended" =>
               draining(r) /\ ~ res[r].headersSent
        /\ decision[r] = "Proxied" =>
               ~ draining(r) /\ Len(proxyCalls[r]) = 1 /\ req[r].stream = "open"
        /\ decision[r] = "ServerRendered" =>
               ~ draining(r) /\ Len(reactCalls[r]) >= 1 /\ req[r].stream = "open"

\* the forwarder has been invoked and awaits the upstream while the request
\* stream has not ended
C13_Witness ==
    \E r \in DOMAIN pc :
        /\ decision[r] = "Proxied"
        /\ pc[r] = "proxy"
        /\ Len(proxyCalls[r]) = 1
        /\ req[r].stream = "open"

\* C14: every request that handleRequest has taken up eventually has its
\* response ended, provided every collaborator awaited calls back.
C14_EventuallyEnded ==
    \A r \in Requests : started(r) ~> res[r].writableEnded

linesOf(r, event) == { i \in 1 .. Len(log[r]) : log[r][i].event = event }

\* the static server or the proxy reported success for this request
collaboratorSucceeded(r) ==
    /\ Len(results[r]) >= 1
    /\ results[r][1].of \in { "static", "proxy" }
    /\ results[r][1].ok

handlingOf(r) ==
    << pc[r], req[r], res[r], url[r], decision[r], log[r], reactCalls[r],
       staticCalls[r], proxyCalls[r], results[r] >>

\* what a request's handling may depend on: its path, how far it has got
\* and what its own stream and collaborators reported
inputsOf(r) == << url[r], pc[r], req[r].stream, results[r] >>

\* a step touches one request at most and leaves the configuration alone
OneRequestPerStep ==
    /\ config' = config
    /\ \E r \in DOMAIN pc :
           \A q \in DOMAIN pc \ { r } : handlingOf(q)' = handlingOf(q)

\* C16: under every interleaving of several requests, two requests with the
\* same path, the same progress and the same stream and collaborator
\* outcomes have the same decision, calls, log and response, whatever else
\* is in flight; and no step changes another request's state, the route
\* list or the proxy configuration.
C16_NoInterference ==
    /\ [](\A r1, r2 \in 1 .. NumConcurrent :
              inputsOf(r1) = inputsOf(r2) => handlingOf(r1) = handlingOf(r2))
    /\ [][OneRequestPerStep]_vars

\* two requests for the same path ended differently: one was served by the
\* static server while the other, whose file lookup failed, awaits SSR
C16_Witness ==
    \E r1, r2 \in DOMAIN pc :
        /\ r1 # r2
        /\ url[r1] = url[r2]
        /\ pc[r1] = "done"
        /\ res[r1].writableEnded
        /\ pc[r2] = "fallback"
        /\ ~ res[r2].headersSent

\* the request was proxied, the proxy failed with 404 and SSR was called
proxiedNotFound(r) ==
    /\ decision[r] = "Proxied"
    /\ Len(results[r]) >= 1
    /\ results[r][1].of = "proxy"
    /\ results[r][1].err = Err(404)
    /\ ~ results[r][1].ok

\* C17: when a Proxied request fails with 404, SSR is called once, with the
\* path as it was received, /api prefix included, although the forwarder has
\* stored the stripped path in req.url; the local url the engine logs and
\* falls back with is that received path in every state of the handling.
C17_FallbackUsesOriginalPath ==
    \A r \in DOMAIN pc :
        /\ proxiedNotFound(r) =>
               /\ reactCalls[r] = << url[r] >>
               /\ isUnderApi(reactCalls[r][1])
               /\ reactCalls[r][1] # req[r].url
               /\ reactCalls[r][1] # proxyCalls[r][1]
        /\ decision[r] = "Proxied" =>
               /\ url[r] = "/api" \o req[r].url
               /\ proxyCalls[r] = << req[r].url >>

\* /api/users was forwarded as /users, not found, and handed to SSR as
\* /api/users
C17_Witness ==
    \E r \in DOMAIN pc :
        /\ proxiedNotFound(r)
        /\ pc[r] = "fallback"
        /\ req[r].url = "/users"
        /\ reactCalls[r] = << "/api/users" >>

\* C18: whenever the engine has called _writeResponseEntity or _writeError
\* for a request (each logs its status line and then calls writeHead), no
\* collaborator of that request had sent the headers or ended the response.
C18_NeverWritesStartedResponse ==
    \A r \in DOMAIN pc :
        linesOf(r, "status") # { } =>
            \A i \in 1 .. Len(results[r]) : results[r][i].effect = "none"

====
